---- MODULE Spec2Model ----
(***************************************************************************)
(* Model of the speech-training app: the Streamlit controller (app.py) and *)
(* the OpenAI adapter SpeechTrainingAI (src/openai_client.py).             *)
(*                                                                         *)
(* Python values are tagged pairs <<tag, payload>>; a text payload is a    *)
(* sequence of one-word strings in which " " and "\n" are whitespace.      *)
(***************************************************************************)
EXTENDS Integers, Sequences, FiniteSets, TLC

\* ------------------------------------------------------------------ bounds
\* number of distinct texts the hosted API may recognise from a recording
MaxTranscripts == 2
\* number of distinct recordings the user may make
MaxAudios == 1

\* ------------------------------------------------------------ Python values
None == <<"None", <<>>>>
\* a key that is not in st.session_state
Absent == <<"absent", <<>>>>
Bytes(b) == <<"bytes", b>>
Str(s) == <<"str", s>>
PyInt(n) == <<"int", n>>
PyFloat(tenths) == <<"float", tenths>>
PyBool(b) == <<"bool", b>>
PyList(n) == <<"list", n>>
Dict(pairs) == <<"dict", pairs>>

IsNone(v) == v[1] = "None"

\* Python truthiness, as used by `if x:` and `not x`
Truthy(v) ==
  CASE v[1] = "None" -> FALSE
    [] v[1] = "str" -> v[2] # <<>>
    [] v[1] = "bytes" -> v[2] # <<>>
    [] v[1] = "int" -> v[2] # 0
    [] v[1] = "float" -> v[2] # 0
    [] v[1] = "bool" -> v[2]
    [] v[1] = "list" -> v[2] # 0
    [] v[1] = "dict" -> v[2] # <<>>
    [] v[1] = "absent" -> FALSE
    [] OTHER -> TRUE

Whitespace == {" ", "\n"}

\* str.strip(): drop leading and trailing whitespace
RECURSIVE LStrip(_)
LStrip(s) == IF s # <<>> /\ Head(s) \in Whitespace THEN LStrip(Tail(s)) ELSE s

RECURSIVE RStrip(_)
RStrip(s) ==
  IF s # <<>> /\ s[Len(s)] \in Whitespace THEN RStrip(SubSeq(s, 1, Len(s) - 1)) ELSE s

strip(s) == RStrip(LStrip(s))

\* ------------------------------------------------------------ dict helpers
RECURSIVE HasKey(_, _)
HasKey(pairs, k) ==
  IF pairs = <<>> THEN FALSE
  ELSE IF Head(pairs)[1] = k THEN TRUE ELSE HasKey(Tail(pairs), k)

\* dict.get(k, default)
RECURSIVE get(_, _, _)
get(pairs, k, default) ==
  IF pairs = <<>> THEN default
  ELSE IF Head(pairs)[1] = k THEN Head(pairs)[2] ELSE get(Tail(pairs), k, default)

\* d[k] = v : a repeated key keeps its position and takes the later value
Put(pairs, k, v) ==
  IF HasKey(pairs, k)
  THEN [i \in 1..Len(pairs) |-> IF pairs[i][1] = k THEN <<k, v>> ELSE pairs[i]]
  ELSE Append(pairs, <<k, v>>)

Keys(pairs) == {pairs[i][1] : i \in 1..Len(pairs)}

\* ------------------------------------------------------------- JSON tokens
LB == <<"punct", "{">>
RB == <<"punct", "}">>
COLON == <<"punct", ":">>
COMMA == <<"punct", ",">>
Word(w) == <<"word", w>>

IsPunct(tok, p) == tok[1] = "punct" /\ tok[2] = p
IsScalar(tok) == tok[1] \in {"str", "int", "float", "bool", "list"}

ParseError == <<"err", None>>
Parsed(v) == <<"ok", v>>

\* members of a JSON object: key ":" value ( "," key ":" value )*
RECURSIVE ParseMembers(_, _, _)
ParseMembers(toks, i, acc) ==
  IF i + 2 > Len(toks) THEN ParseError
  ELSE IF ~(toks[i][1] = "str" /\ IsPunct(toks[i + 1], ":") /\ IsScalar(toks[i + 2]))
  THEN ParseError
  ELSE LET acc2 == Put(acc, toks[i][2], toks[i + 2]) IN
       IF i + 2 = Len(toks) THEN Parsed(Dict(acc2))
       ELSE IF IsPunct(toks[i + 3], ",") /\ i + 3 < Len(toks)
       THEN ParseMembers(toks, i + 4, acc2)
       ELSE ParseError

\* json.loads on the message content
json_loads(content) ==
  IF Len(content) = 1 /\ IsScalar(content[1]) THEN Parsed(content[1])
  ELSE IF Len(content) >= 2 /\ IsPunct(content[1], "{") /\ IsPunct(content[Len(content)], "}")
  THEN LET inner == SubSeq(content, 2, Len(content) - 1) IN
       IF inner = <<>> THEN Parsed(Dict(<<>>)) ELSE ParseMembers(inner, 1, <<>>)
  ELSE ParseError

\* serialisation of an object by the hosted model: the token text of pairs
RECURSIVE Members(_)
Members(pairs) ==
  IF pairs = <<>> THEN <<>>
  ELSE <<Str(Head(pairs)[1]), COLON, Head(pairs)[2]>>
       \o (IF Tail(pairs) = <<>> THEN <<>> ELSE <<COMMA>> \o Members(Tail(pairs)))

Obj(pairs) == <<LB>> \o Members(pairs) \o <<RB>>

\* ------------------------------------------------- hosted API (environment)
\* one call to the hosted API either raises or returns a payload
ApiRaise == <<"raise", None>>
ApiReturn(payload) == <<"return", payload>>
NoCall == <<"nocall", None>>

Transcripts == {Str([i \in 1..n |-> "word"]) : n \in 1..MaxTranscripts}
Audios == {Bytes([i \in 1..n |-> "pcm"]) : n \in 1..MaxAudios}
TranscribeOutcomes == {ApiRaise} \cup {ApiReturn(t) : t \in Transcripts}

GenContents ==
  { <<"Q1">>, <<" ", "Q2", "\n">>, <<" ", "\n">> }
GenerateOutcomes == {ApiRaise} \cup {ApiReturn(c) : c \in GenContents}

K(w) == <<w>>
Common(score) ==
  << <<K("score"), score>>, <<K("feedback"), Str(<<"fb">>)>>,
     <<K("good_points"), PyList(2)>>, <<K("improvements"), PyList(2)>> >>
ParrotPairs(score) ==
  << <<K("has_parrot"), PyBool(TRUE)>>, <<K("has_answer"), PyBool(TRUE)>> >> \o Common(score)
CommentaryPairs(score) ==
  << <<K("sentence_count"), PyInt(3)>>, <<K("avg_sentence_length"), PyFloat(125)>> >>
  \o Common(score)

\* message contents the hosted model may answer an analysis request with
ParrotGood == Obj(ParrotPairs(PyInt(85)))
CommentaryGood == Obj(CommentaryPairs(PyInt(100)))
MissingScore == Obj(SubSeq(ParrotPairs(PyInt(85)), 1, 2) \o Tail(Common(PyInt(85))))
ExtraField == Obj(Append(ParrotPairs(PyInt(60)), <<K("note"), Str(<<"x">>)>>))
ScoreOver == Obj(ParrotPairs(PyInt(150)))
ScoreText == Obj(ParrotPairs(Str(<<"high">>)))
Truncated == SubSeq(ParrotGood, 1, Len(ParrotGood) - 1)
Prose == <<Word("Sorry")>>
BareNumber == <<PyInt(85)>>

AnalysisContents ==
  { ParrotGood, CommentaryGood, MissingScore, ExtraField, ScoreOver, ScoreText,
    Truncated, Prose, BareNumber }
ChatOutcomes == {ApiRaise} \cup {ApiReturn(c) : c \in AnalysisContents}

\* ------------------------------------------------ adapter: SpeechTrainingAI
Raised(prefix, calls, req) ==
  [ok |-> FALSE, value |-> None, error |-> prefix, apiCalls |-> calls, request |-> req]
Returned(v, calls, req) ==
  [ok |-> TRUE, value |-> v, error |-> "none", apiCalls |-> calls, request |-> req]

NoRequest == [rubric |-> "none", question |-> None, response |-> None]

SpeechTrainingAI_init_lax(api_key, env_key) ==
  LET key == IF Truthy(api_key) THEN api_key ELSE env_key IN
  IF IsNone(key) THEN "ValueError" ELSE "client"

\* __init__: api_key or os.getenv(...); a falsy key raises ValueError
SpeechTrainingAI_init(api_key, env_key) ==
  LET key == IF Truthy(api_key) THEN api_key ELSE env_key IN
  IF ~Truthy(key) THEN "ValueError" ELSE "client"

transcribe_audio_retry(audio_file, outcome) ==
  IF IsNone(audio_file) THEN Raised("transcribe", 0, NoRequest)
  ELSE IF outcome[1] = "raise" THEN Raised("transcribe", 2, NoRequest)
  ELSE Returned(outcome[2], 1, NoRequest)

\* transcribe_audio: open the file, one transcription call, return its text
transcribe_audio(audio_file, outcome) ==
  IF IsNone(audio_file) THEN Raised("transcribe", 0, NoRequest)
  ELSE IF outcome[1] = "raise" THEN Raised("transcribe", 1, NoRequest)
  ELSE Returned(outcome[2], 1, NoRequest)

ChatJson_swallow(req, outcome) ==
  IF outcome[1] = "raise" THEN Raised("analyze", 1, req)
  ELSE LET r == json_loads(outcome[2]) IN
       IF r[1] = "err" THEN Returned(Dict(<<>>), 1, req) ELSE Returned(r[2], 1, req)

\* the body shared by the analysis operations: one chat completion in JSON
\* mode, json.loads of its content, any exception re-raised with a prefix
ChatJson(req, outcome) ==
  IF outcome[1] = "raise" THEN Raised("analyze", 1, req)
  ELSE LET r == json_loads(outcome[2]) IN
       IF r[1] = "err" THEN Raised("analyze", 1, req) ELSE Returned(r[2], 1, req)

ParrotKeys ==
  {K("has_parrot"), K("has_answer"), K("score"), K("feedback"), K("good_points"),
   K("improvements")}
CommentaryKeys ==
  {K("sentence_count"), K("avg_sentence_length"), K("score"), K("feedback"),
   K("good_points"), K("improvements")}

analyze_parrot_response_strict(question, user_response, outcome) ==
  LET req == [rubric |-> "parrot", question |-> question, response |-> user_response]
      r == ChatJson(req, outcome)
  IN IF r.ok /\ r.value[1] = "dict" /\ Keys(r.value[2]) # ParrotKeys
     THEN Raised("analyze", 1, req) ELSE r

analyze_parrot_response(question, user_response, outcome) ==
  ChatJson([rubric |-> "parrot", question |-> question, response |-> user_response],
           outcome)

analyze_live_commentary(topic, user_speech, outcome) ==
  ChatJson([rubric |-> "commentary", question |-> topic, response |-> user_speech],
           outcome)

\* generate_question: pick the template by training type, one chat
\* completion, return the stripped content
Template(training_type) ==
  IF training_type = "parrot" THEN "parrot"
  ELSE IF training_type = "commentary" THEN "commentary"
  ELSE IF training_type = "self_questioning" THEN "self_questioning"
  ELSE "conclusion_first"

generate_question(training_type, outcome) ==
  LET req == [rubric |-> Template(training_type), question |-> None, response |-> None] IN
  IF outcome[1] = "raise" THEN Raised("generate", 1, req)
  ELSE Returned(Str(strip(outcome[2])), 1, req)

\* ------------------------------------------------------ controller: app.py
VARIABLES
  credential,      \* OPENAI_API_KEY in the process environment
  phase,           \* "new" (no script run yet), "stopped" (st.stop), "ready"
  training_mode,   \* the sidebar radio: "parrot" or "commentary"
  session_state,   \* st.session_state: ai_client, current_question, ...
  audio_bytes,     \* value of the audio_recorder widget of the shown drill
  audio_file,      \* content of audio_files/recorded_audio.wav, None if absent
  question_source, \* training type of the generate_question call that
                   \* produced session_state.current_question
  last,            \* what the latest script run did
  feedback_origin  \* the analysis call that produced session_state.feedback

vars ==
  <<credential, phase, training_mode, session_state, audio_bytes, audio_file,
    question_source, last, feedback_origin>>

Drills == {"parrot", "commentary"}

Fields(ss) ==
  [current_question |-> ss.current_question,
   transcribed_text |-> ss.transcribed_text,
   feedback |-> ss.feedback]

Quiet(action, drill) ==
  [action |-> action, drill |-> drill, before |-> Fields(session_state),
   failed |-> "none", error |-> "none",
   genInv |-> 0, genApi |-> 0, transInv |-> 0, transApi |-> 0,
   anaInv |-> 0, anaApi |-> 0,
   generated |-> None, transcribed |-> None, request |-> NoRequest,
   requestSource |-> "none", content |-> NoCall, returned |-> None,
   display |-> "none"]

\* lines 33-40: a missing session key is created as None
InitKeys(ss) ==
  [ss EXCEPT
     !.current_question = IF @ = Absent THEN None ELSE @,
     !.transcribed_text = IF @ = Absent THEN None ELSE @,
     !.feedback = IF @ = Absent THEN None ELSE @]

\* lines 163-165: the assignments happen only if generate_question returned
AfterGenerate_keepFeedback(ss, r) ==
  IF r.ok THEN [ss EXCEPT !.current_question = r.value, !.transcribed_text = None]
  ELSE ss

AfterGenerate(ss, r) ==
  IF r.ok
  THEN [ss EXCEPT !.current_question = r.value, !.transcribed_text = None,
                  !.feedback = None]
  ELSE ss

\* lines 197-198
AfterTranscribe_skip(ss, r) == ss

AfterTranscribe_clear(ss, r) ==
  IF r.ok THEN [ss EXCEPT !.transcribed_text = r.value]
  ELSE [ss EXCEPT !.transcribed_text = None]

AfterTranscribe(ss, r) ==
  IF r.ok THEN [ss EXCEPT !.transcribed_text = r.value] ELSE ss

\* lines 207-211
AfterAnalyze_rollback(ss, r) ==
  IF r.ok THEN [ss EXCEPT !.feedback = r.value]
  ELSE [ss EXCEPT !.transcribed_text = None]

AfterAnalyze(ss, r) ==
  IF r.ok THEN [ss EXCEPT !.feedback = r.value] ELSE ss

\* float(score) / 100 lies in [0.0, 1.0], as st.progress requires
IsNumber(v) == v[1] \in {"int", "float", "bool"}
InProgressRange(v) ==
  CASE v[1] = "int" -> v[2] >= 0 /\ v[2] <= 100
    [] v[1] = "float" -> v[2] >= 0 /\ v[2] <= 1000
    [] OTHER -> TRUE
Iterable(v) == v[1] \in {"list", "str", "dict"}

\* display_feedback: "failed" raised before any field was shown, "partial"
\* raised after the score was shown, "rendered" ran to its end
display_feedback(feedback, training_type) ==
  IF feedback[1] # "dict" THEN "failed"
  ELSE LET d == feedback[2]
           score == get(d, K("score"), PyInt(0))
           good_points == get(d, K("good_points"), PyList(0))
           improvements == get(d, K("improvements"), PyList(0))
           avg_length == get(d, K("avg_sentence_length"), PyInt(0))
       IN IF ~IsNumber(score) \/ ~InProgressRange(score) THEN "partial"
          ELSE IF Truthy(good_points) /\ ~Iterable(good_points) THEN "partial"
          ELSE IF Truthy(improvements) /\ ~Iterable(improvements) THEN "partial"
          ELSE IF training_type = "commentary" /\ ~IsNumber(avg_length) THEN "partial"
          ELSE "rendered"

\* the analysis operation each drill calls
Analyze(drill, question, text, outcome) ==
  IF drill = "parrot" THEN analyze_parrot_response(question, text, outcome)
  ELSE analyze_live_commentary(question, text, outcome)

\* the recorder of a drill is rendered only under a truthy question; a
\* widget that is not rendered loses its value
RecorderValue(ss, audio) == IF Truthy(ss.current_question) THEN audio ELSE None

\* no analysis call has produced the stored feedback
NoOrigin == [request |-> NoRequest, answer |-> NoCall, overtaken |-> FALSE]

IsSet(v) == v[1] \notin {"None", "absent"}

Init ==
  /\ feedback_origin = NoOrigin
  /\ credential \in {None, Str(<<>>), Str(<<"sk">>)}
  /\ phase = "new"
  /\ training_mode = "parrot"
  /\ session_state = [ai_client |-> Absent, current_question |-> Absent,
                      transcribed_text |-> Absent, feedback |-> Absent]
  /\ audio_bytes = None
  /\ audio_file = None
  /\ question_source = "none"
  /\ last = Quiet("init", "parrot")

\* lines 26-40: a script run while no client is in the session
Start ==
  /\ phase \in {"new", "stopped"}
  /\ LET c == SpeechTrainingAI_init(None, credential) IN
     IF c = "ValueError"
     THEN /\ phase' = "stopped"
          /\ last' = [Quiet("start", training_mode) EXCEPT
                        !.failed = "config", !.error = "config"]
          /\ UNCHANGED session_state
     ELSE /\ phase' = "ready"
          /\ session_state' = InitKeys([session_state EXCEPT !.ai_client = Str(<<c>>)])
          /\ last' = Quiet("start", training_mode)
  /\ UNCHANGED <<credential, training_mode, audio_bytes, audio_file, question_source,
                 feedback_origin>>

\* lines 327-357: the radio selects the other drill
SwitchDrill ==
  /\ phase = "ready"
  /\ \E m \in Drills \ {training_mode} :
       /\ training_mode' = m
       /\ last' = Quiet("switch", m)
  /\ session_state' = InitKeys(session_state)
  /\ audio_bytes' = None
  /\ UNCHANGED <<credential, phase, audio_file, question_source, feedback_origin>>

\* lines 171-187 / 262-278: the recorder returns a new recording
Record ==
  /\ phase = "ready"
  /\ Truthy(session_state.current_question)
  /\ \E a \in Audios : audio_bytes' = a
  /\ session_state' = InitKeys(session_state)
  /\ last' = Quiet("record", training_mode)
  /\ UNCHANGED <<credential, phase, training_mode, audio_file, question_source,
                 feedback_origin>>

\* lines 160-168 / 251-259: the "generate" button of a drill
GenerateClick(drill) ==
  /\ phase = "ready"
  /\ training_mode = drill
  /\ \E outcome \in GenerateOutcomes :
       LET r == generate_question(drill, outcome)
           ss == AfterGenerate(InitKeys(session_state), r)
       IN /\ session_state' = ss
          /\ question_source' = IF r.ok THEN r.request.rubric ELSE question_source
          /\ feedback_origin' = IF r.ok THEN NoOrigin ELSE feedback_origin
          /\ audio_bytes' = RecorderValue(ss, audio_bytes)
          /\ last' = [Quiet("generate", drill) EXCEPT
                        !.genInv = 1, !.genApi = r.apiCalls,
                        !.generated = r.value,
                        !.failed = IF r.ok THEN "none" ELSE "generate",
                        !.error = IF r.ok THEN "none" ELSE "generate_error"]
  /\ UNCHANGED <<credential, phase, training_mode, audio_file>>

\* lines 190-220 / 281-311: the "analyze" button of a drill
SubmitClick(drill) ==
  /\ phase = "ready"
  /\ training_mode = drill
  /\ Truthy(session_state.current_question)
  /\ Truthy(audio_bytes)
  /\ \E tOut \in TranscribeOutcomes :
       \E rt \in {transcribe_audio(audio_bytes, tOut)} :
         LET ss0 == InitKeys(session_state)
             saved == audio_bytes
             ss1 == AfterTranscribe(ss0, rt)
             base == [Quiet("submit", drill) EXCEPT
                        !.transInv = 1, !.transApi = rt.apiCalls,
                        !.transcribed = rt.value]
         IN IF ~rt.ok
            THEN /\ session_state' = ss1
                 /\ audio_file' = saved
                 /\ feedback_origin' = feedback_origin
                 /\ last' = [base EXCEPT !.failed = "transcribe", !.error = "submit_error"]
            ELSE \E aOut \in ChatOutcomes :
                 \E ra \in {Analyze(drill, ss1.current_question, rt.value, aOut)} :
                   LET ss2 == AfterAnalyze(ss1, ra)
                       shown == display_feedback(ra.value, drill)
                       called == [base EXCEPT
                                    !.anaInv = 1, !.anaApi = ra.apiCalls,
                                    !.request = ra.request,
                                    !.requestSource = question_source,
                                    !.content = aOut]
                   IN IF ~ra.ok
                      THEN /\ session_state' = ss2
                           /\ audio_file' = saved
                           /\ feedback_origin' =
                                IF IsSet(ss2.feedback)
                                THEN [feedback_origin EXCEPT !.overtaken = TRUE]
                                ELSE feedback_origin
                           /\ last' = [called EXCEPT
                                         !.failed = "analyze", !.error = "submit_error"]
                      ELSE /\ session_state' = ss2
                           /\ audio_file' = IF shown = "rendered" THEN None ELSE saved
                           /\ feedback_origin' =
                                [request |-> ra.request, answer |-> aOut,
                                 overtaken |-> FALSE]
                           /\ last' = [called EXCEPT
                                         !.returned = ra.value,
                                         !.display = shown,
                                         !.failed = IF shown = "rendered" THEN "none"
                                                    ELSE "display",
                                         !.error = IF shown = "rendered" THEN "none"
                                                   ELSE "submit_error"]
  /\ UNCHANGED <<credential, phase, training_mode, audio_bytes, question_source>>

ParrotGenerate == GenerateClick("parrot")
CommentaryGenerate == GenerateClick("commentary")
ParrotSubmit == SubmitClick("parrot")
CommentarySubmit == SubmitClick("commentary")

Next ==
  \/ Start
  \/ SwitchDrill
  \/ Record
  \/ ParrotGenerate
  \/ CommentaryGenerate
  \/ ParrotSubmit
  \/ CommentarySubmit

Spec == Init /\ [][Next]_vars

\* ------------------------------------------------------------------ claims
Session == Fields(session_state)
Submitted == last.action = "submit"

\* what json.loads makes of the content the analysis call got back
AnswerParse == IF last.content[1] = "return" THEN json_loads(last.content[2]) ELSE ParseError
Unparseable == last.content[1] = "return" /\ AnswerParse[1] = "err"
ExpectedKeys(drill) == IF drill = "parrot" THEN ParrotKeys ELSE CommentaryKeys
ShapeMismatch ==
  /\ Submitted
  /\ AnswerParse[1] = "ok"
  /\ AnswerParse[2][1] = "dict"
  /\ Keys(AnswerParse[2][2]) # ExpectedKeys(last.drill)

\* C1 as stated: after a submit whose transcription call failed, the session
\* transcript is None and the analysis call was not invoked.
C1_TranscriptUnsetAfterFailure ==
  (Submitted /\ last.failed = "transcribe")
    => (session_state.transcribed_text = None /\ last.anaInv = 0)

\* C1 amended: after a submit whose transcription call failed, the session
\* transcript still holds the value it had before the submit (None only if it
\* was None before) and neither the analysis operation nor its API call ran.
C1_TranscriptKeptAfterFailure ==
  (Submitted /\ last.failed = "transcribe")
    => /\ session_state.transcribed_text = last.before.transcribed_text
       /\ last.anaInv = 0
       /\ last.anaApi = 0
       /\ last.request = NoRequest

C1_Witness ==
  /\ Submitted
  /\ last.failed = "transcribe"
  /\ last.before.transcribed_text # None
  /\ session_state.transcribed_text = last.before.transcribed_text

\* C2: when a backend step (generate, transcribe, analyze) fails, an error
\* message is shown and prompt, transcript and feedback hold the values they
\* had just before that step: the values from before the click, except that a
\* transcript stored by the successful transcription of the same submit stays.
C2_FailedStepKeepsState ==
  /\ last.failed = "generate"
       => (last.error = "generate_error" /\ Session = last.before)
  /\ last.failed = "transcribe"
       => (last.error = "submit_error" /\ Session = last.before)
  /\ last.failed = "analyze"
       => /\ last.error = "submit_error"
          /\ Session = [last.before EXCEPT !.transcribed_text = last.transcribed]
          /\ last.transcribed \in Transcripts

C2_Witness ==
  /\ last.failed = "analyze"
  /\ last.before.feedback # None
  /\ last.before.transcribed_text # last.transcribed
  /\ session_state.transcribed_text = last.transcribed
  /\ session_state.feedback = last.before.feedback

\* C3: with a missing (absent or empty) credential the script reports the
\* configuration error and stops: the drill UI is never reached, no client is
\* put in the session and no backend operation is invoked.
C3_MissingCredentialHalts ==
  ~Truthy(credential)
    => /\ phase # "ready"
       /\ session_state.ai_client = Absent
       /\ phase = "stopped" => last.error = "config"
       /\ last.genInv = 0 /\ last.transInv = 0 /\ last.anaInv = 0
       /\ last.genApi = 0 /\ last.transApi = 0 /\ last.anaApi = 0
       /\ last.action \in {"init", "start"}

C3_Witness ==
  /\ credential = Str(<<>>)
  /\ phase = "stopped"
  /\ last.action = "start"
  /\ last.error = "config"

\* C4: when the analysis call returns content that json.loads rejects, the
\* adapter raises, the controller shows its error message and goes on
\* running, and prompt, transcript (as just transcribed) and the previous
\* feedback are unchanged.
C4_UnparseableAnswer ==
  (Submitted /\ Unparseable)
    => /\ last.failed = "analyze"
       /\ last.error = "submit_error"
       /\ last.returned = None
       /\ last.display = "none"
       /\ phase = "ready"
       /\ session_state.current_question = last.before.current_question
       /\ session_state.transcribed_text = last.transcribed
       /\ session_state.feedback = last.before.feedback

C4_Witness ==
  /\ Submitted
  /\ last.content = ApiReturn(Truncated)
  /\ last.failed = "analyze"
  /\ last.before.feedback # None
  /\ session_state.feedback = last.before.feedback

\* C5 as stated: when the answer parses as JSON but its fields are not the
\* drill's expected ones, the generic error message is shown and no feedback
\* is rendered or stored.
C5_MismatchIsAnError ==
  ShapeMismatch
    => /\ last.error = "submit_error"
       /\ last.display = "none"
       /\ session_state.feedback = last.before.feedback

\* C5 amended: when the answer parses as a JSON object whose fields are not
\* the drill's expected ones, the adapter raises nothing; the object is
\* returned unmodified, stored as the session feedback and handed to
\* display_feedback, and an error message appears only if display_feedback
\* itself raises on a field's value.
C5_MismatchIsStored ==
  ShapeMismatch
    => /\ last.failed # "analyze"
       /\ last.returned = AnswerParse[2]
       /\ session_state.feedback = AnswerParse[2]
       /\ last.display \in {"rendered", "partial"}
       /\ last.display = "rendered" <=> last.error = "none"
       /\ last.display = "partial" <=> last.failed = "display"

C5_Witness ==
  /\ ShapeMismatch
  /\ last.drill = "parrot"
  /\ last.content = ApiReturn(MissingScore)
  /\ session_state.feedback = AnswerParse[2]
  /\ last.display = "rendered"
  /\ last.error = "none"

\* C6 as stated: a feedback returned by an analysis operation, and so the
\* feedback stored in the session, has an integer score within 0..100.
ScoreInRange(fb) ==
  /\ fb[1] = "dict"
  /\ HasKey(fb[2], K("score"))
  /\ LET score == get(fb[2], K("score"), PyInt(0)) IN
       score[1] = "int" /\ score[2] >= 0 /\ score[2] <= 100

C6_ScoreWithinRange ==
  /\ last.returned # None => ScoreInRange(last.returned)
  /\ session_state.feedback \notin {None, Absent} => ScoreInRange(session_state.feedback)

\* C7 as stated: between user actions no temporary recording file exists,
\* whether the submit succeeded or failed.
C7_NoRecordingFileLeft == audio_file = None

\* C8: no backend call is retried: a generate click makes one generation
\* call, a submit click one transcription call and then at most one analysis
\* call (none after a failed transcription), and every adapter operation
\* makes exactly one hosted-API call per invocation.
C8_NoRetry ==
  /\ last.genApi = last.genInv
  /\ last.transApi = last.transInv
  /\ last.anaApi = last.anaInv
  /\ last.action = "generate"
       => (last.genInv = 1 /\ last.transInv = 0 /\ last.anaInv = 0)
  /\ last.action = "submit"
       => /\ last.genInv = 0
          /\ last.transInv = 1
          /\ last.anaInv = IF last.failed = "transcribe" THEN 0 ELSE 1
  /\ last.action \notin {"generate", "submit"}
       => (last.genInv = 0 /\ last.transInv = 0 /\ last.anaInv = 0)

C8_Witness ==
  /\ Submitted
  /\ last.failed = "analyze"
  /\ last.content = ApiRaise
  /\ last.transApi = 1
  /\ last.anaApi = 1

\* C9: a successful generate stores the generated text as the prompt and
\* resets transcript and feedback to None; a failed generate leaves all three
\* unchanged; submit, record and drill switch never change the prompt.
C9_PromptFrame ==
  /\ (last.action = "generate" /\ last.failed = "none")
       => /\ session_state.current_question = last.generated
          /\ last.generated[1] = "str"
          /\ session_state.transcribed_text = None
          /\ session_state.feedback = None
  /\ (last.action = "generate" /\ last.failed # "none")
       => (last.failed = "generate" /\ Session = last.before)
  /\ last.action \in {"submit", "switch", "record"}
       => session_state.current_question = last.before.current_question

C9_Witness ==
  /\ last.action = "generate"
  /\ last.failed = "none"
  /\ last.before.feedback # None
  /\ last.before.current_question # session_state.current_question
  /\ session_state.feedback = None

\* C10 as stated: an analysis under a drill's rubric is always given a
\* prompt that generate_question produced for that same drill.
C10_PromptFromSameDrill ==
  last.anaInv = 1 => last.requestSource = last.request.rubric

\* C11 as stated: whenever feedback is set, prompt and transcript are set and
\* the feedback is the result of the analysis call made with exactly the
\* stored prompt and the stored transcript.
OriginResult ==
  IF feedback_origin.answer[1] = "return" THEN json_loads(feedback_origin.answer[2])
  ELSE ParseError

FeedbackFromStoredPrompt ==
  /\ session_state.current_question[1] = "str"
  /\ session_state.transcribed_text[1] = "str"
  /\ feedback_origin.request.rubric \in Drills
  /\ feedback_origin.request.question = session_state.current_question
  /\ OriginResult[1] = "ok"
  /\ session_state.feedback = OriginResult[2]

C11_FeedbackMatchesStoredInputs ==
  IsSet(session_state.feedback)
    => /\ FeedbackFromStoredPrompt
       /\ feedback_origin.request.response = session_state.transcribed_text

\* C11 amended: whenever feedback is set, prompt and transcript are set and
\* the feedback is the result of the analysis call made with the stored
\* prompt and the transcript stored at that time; the stored transcript is
\* still that one unless a later submit transcribed successfully and its
\* analysis call then failed, which stores the new transcript and keeps the
\* old feedback.
C11_FeedbackMatchesUnlessOvertaken ==
  IsSet(session_state.feedback)
    => /\ FeedbackFromStoredPrompt
       /\ feedback_origin.request.response[1] = "str"
       /\ \/ feedback_origin.request.response = session_state.transcribed_text
          \/ /\ feedback_origin.overtaken
             /\ session_state.transcribed_text \in Transcripts

C11_Witness ==
  /\ IsSet(session_state.feedback)
  /\ FeedbackFromStoredPrompt
  /\ feedback_origin.overtaken
  /\ feedback_origin.request.response # session_state.transcribed_text
  /\ last.failed = "analyze"

====
